---- MODULE Spec2Model ----
(***************************************************************************)
(* GLADyS salience fast path: the L0 heuristic cache (MemoryCache), the    *)
(* EmbeddingSimilarityScorer and the SalienceService that drives them.     *)
(*                                                                         *)
(* Numbers.  f32 values that the code only compares or takes the maximum   *)
(* of (similarity, confidence, salience fields) are integers in            *)
(* hundredths: 100 stands for 1.0.  Embeddings are integer vectors whose   *)
(* norms are integers, so dot / (norm_a * norm_b) is computed exactly as   *)
(* the f32 code computes it for those vectors.                             *)
(***************************************************************************)
EXTENDS Integers, Sequences, FiniteSets, TLC

\* ------------------------------------------------------------------ bounds
MaxTime == 3          \* the clock runs over 1..MaxTime (milliseconds)
MaxCap == 2           \* max_heuristics is configured in 0..MaxCap
Ttl == 2              \* the positive heuristic_ttl_ms that is configured
MaxHits == 1          \* direct calls of touch_heuristic
MaxReturn == 2        \* heuristics in one storage reply
MaxRecords == 2       \* direct calls of record_hit, and of record_miss
F32Max == 1000        \* the largest finite value of the model's f32
MaxDim == 2           \* components of a vector given to cosine_similarity

\* --------------------------------------------------------- program constants
One == 100            \* 1.0, the similarity the storage fallback reports
min_similarity == 70  \* EmbeddingSimilarityScorer.min_similarity (0.7)
min_confidence == 50  \* EmbeddingSimilarityScorer.min_confidence (0.5)
CacheLookupLimit == 5 \* limit passed to find_matching_heuristics by score
baseline_novelty == 10         \* SalienceConfig.baseline_novelty (0.1)
unmatched_novelty_boost == 40  \* SalienceConfig.unmatched_novelty_boost (0.4)

\* --------------------------------------------------------------- the domain
Ids == {"h1", "h2", "h3"}          \* well-formed heuristic UUIDs
Tasks == {1, 2}                    \* concurrent evaluate_salience requests
NoTask == 0

\* JSON values of action.salience: a number (in hundredths) or something
\* for which as_f64() is None.
Num(v) == [kind |-> "number", value |-> v]
NotNumber == [kind |-> "string"]

\* What the storage service holds for each id: confidence, condition
\* embedding and the salience part of the action.
Catalog ==
    [i \in Ids |->
        CASE i = "h1" -> [confidence |-> 90, condition_embedding |-> <<1, 0>>,
                          salience |-> [threat |-> Num(90), emotional |-> Num(150),
                                        humor |-> NotNumber]]
          [] i = "h2" -> [confidence |-> 80, condition_embedding |-> <<3, 4>>,
                          salience |-> [opportunity |-> Num(60), novelty |-> Num(5),
                                        habituation |-> Num(50)]]
          [] OTHER    -> [confidence |-> 30, condition_embedding |-> <<>>,
                          salience |-> [social |-> Num(70), habituation |-> Num(50),
                                        emotional |-> Num(150)]]]

\* Embeddings generate_embedding can return for an event text.
QueryEmbeddings == {<<>>, <<1, 0>>, <<4, 3>>}

VARIABLES
    heuristics,        \* MemoryCache.heuristics: resident id -> CachedHeuristic
    total_hits,        \* MemoryCache.total_hits
    total_misses,      \* MemoryCache.total_misses
    max_heuristics,    \* CacheConfig.max_heuristics
    heuristic_ttl_ms,  \* CacheConfig.heuristic_ttl_ms
    now,               \* current_time_ms()
    calls,             \* direct touch / record calls made so far
    readers,           \* tasks holding the read side of the cache RwLock
    writer,            \* the task holding the write side, or NoTask
    pc,                \* where each evaluate_salience task stands
    raw_text,          \* the request's raw_text
    embedding_result,  \* what generate_embedding returned to the task
    cache_matches,     \* what find_matching_heuristics returned to the task
    storage_result,    \* what query_matching_heuristics returned to the task
    score_result,      \* what score returned to evaluate_salience
    path,              \* the branch of score that returned ("cache"/"storage")
    response,          \* the EvaluateSalienceResponse of the task
    ret                \* the response of the administrative RPC just served

cacheVars == <<heuristics, total_hits, total_misses, max_heuristics,
               heuristic_ttl_ms>>
configVars == <<max_heuristics, heuristic_ttl_ms>>
lockVars == <<readers, writer>>
taskVars == <<pc, raw_text, embedding_result, cache_matches, storage_result,
              score_result, path, response>>
vars == <<heuristics, total_hits, total_misses, max_heuristics,
          heuristic_ttl_ms, now, calls, readers, writer, pc, raw_text,
          embedding_result, cache_matches, storage_result, score_result,
          path, response, ret>>

\* ---------------------------------------------------------------- helpers
Range(s) == {s[i] : i \in DOMAIN s}

Resident == DOMAIN heuristics

Insert(hs, h) == [i \in (DOMAIN hs) \cup {h.id} |-> IF i = h.id THEN h ELSE hs[i]]

Remove(hs, id) == [i \in (DOMAIN hs) \ {id} |-> hs[i]]

\* A heuristic as GrpcStorageBackend builds it from a storage match.
FromStorage(id) ==
    [id |-> id,
     confidence |-> Catalog[id].confidence,
     condition_embedding |-> Catalog[id].condition_embedding,
     action |-> Catalog[id].salience,
     last_accessed_ms |-> 0,
     cached_at_ms |-> 0,
     hit_count |-> 0,
     last_hit_ms |-> 0]

\* ------------------------------------------------------------ MemoryCache
\* (variant: max_by_key instead of min_by_key)
NewestIds(hs) ==
    {o \in DOMAIN hs :
        \A p \in DOMAIN hs : hs[o].last_accessed_ms >= hs[p].last_accessed_ms}

\* The ids min_by_key(last_accessed_ms) can yield: the map's iteration order
\* is unspecified, so any entry of minimal last_accessed_ms.
OldestIds(hs) ==
    {o \in DOMAIN hs :
        \A p \in DOMAIN hs : hs[o].last_accessed_ms <= hs[p].last_accessed_ms}

\* while len >= max_heuristics { remove the oldest, or break when empty }
RECURSIVE EvictLoop(_, _)
EvictLoop(hs, cap) ==
    IF Cardinality(DOMAIN hs) >= cap
    THEN IF DOMAIN hs = {}
         THEN {hs}
         ELSE UNION {EvictLoop(Remove(hs, o), cap) : o \in OldestIds(hs)}
    ELSE {hs}

\* The timestamps add_heuristic fills in when they are 0.
Stamp(h, t) ==
    [h EXCEPT !.last_accessed_ms = IF @ = 0 THEN t ELSE @,
              !.cached_at_ms = IF @ = 0 THEN t ELSE @]

\* The caches add_heuristic can leave behind, at clock value t.
add_heuristic(hs, cap, h, t) ==
    {Insert(e, Stamp(h, t)) : e \in EvictLoop(hs, cap)}

\* (variant: the hit is counted but last_accessed_ms is not refreshed)
touch_counts_only(hs, id, t) ==
    IF id \in DOMAIN hs
    THEN [hs EXCEPT ![id].last_hit_ms = t,
                    ![id].hit_count = @ + 1]
    ELSE hs

\* (variant: the touch also restarts the TTL of the entry)
touch_restarting_ttl(hs, id, t) ==
    IF id \in DOMAIN hs
    THEN [hs EXCEPT ![id].last_accessed_ms = t,
                    ![id].last_hit_ms = t,
                    ![id].hit_count = @ + 1,
                    ![id].cached_at_ms = t]
    ELSE hs

\* h.last_accessed_ms = now; h.hit_count += 1; h.last_hit_ms = now
touch_heuristic(hs, id, t) ==
    IF id \in DOMAIN hs
    THEN [hs EXCEPT ![id].last_accessed_ms = t,
                    ![id].last_hit_ms = t,
                    ![id].hit_count = @ + 1]
    ELSE hs

get_heuristic(hs, id) == IF id \in DOMAIN hs THEN {hs[id]} ELSE {}

\* (variant: reports the id as found whether or not it was cached)
remove_always_found(hs, id) == [cache |-> Remove(hs, id), found |-> TRUE]

remove_heuristic(hs, id) == [cache |-> Remove(hs, id), found |-> id \in DOMAIN hs]

\* (variant: counts the entries after clearing the map)
flush_count_after(hs) == [cache |-> <<>>, count |-> 0]

flush_heuristics(hs) == [cache |-> <<>>, count |-> Cardinality(DOMAIN hs)]

\* ---------------------------------------------------- cache queries
\* f32 arithmetic: a result beyond the largest finite value is an infinity,
\* and an infinity minus or over an infinity is NaN.  NaN compares false
\* with every threshold, as a value below all of them does.
Inf == F32Max + 1
NegInf == 0 - Inf
NaN == 0 - (F32Max + 2)

Finite(x) == x <= F32Max /\ x >= 0 - F32Max

Round(x) == IF x > F32Max THEN Inf ELSE IF x < 0 - F32Max THEN NegInf ELSE x

FAdd(x, y) ==
    IF Finite(x) /\ Finite(y) THEN Round(x + y)
    ELSE IF x = NaN \/ y = NaN THEN NaN
    ELSE IF (x = Inf /\ y = NegInf) \/ (x = NegInf /\ y = Inf) THEN NaN
    ELSE IF x = Inf \/ y = Inf THEN Inf
    ELSE NegInf

\* A product of two values of which none is zero or NaN.
FMul(x, y) ==
    IF Finite(x) /\ Finite(y) THEN Round(x * y)
    ELSE IF (x > 0) = (y > 0) THEN Inf ELSE NegInf

\* x / y in hundredths, for y > 0.
FDiv(x, y) ==
    IF Finite(x) /\ Finite(y) THEN (x * One) \div y
    ELSE IF x = NaN THEN NaN
    ELSE IF Finite(x) THEN 0
    ELSE IF y = Inf THEN NaN
    ELSE x

\* iter().sum(): the terms are added from the left.
RECURSIVE SumTo(_, _)
SumTo(f, n) == IF n = 0 THEN 0 ELSE FAdd(SumTo(f, n - 1), f[n])

\* f32::sqrt on the sums of squares that arise here (perfect squares).
Sqrt(n) == IF n = Inf THEN Inf ELSE CHOOSE r \in 0..n : r * r = n

\* cosine_similarity(a, b), in hundredths.
cosine_similarity(a, b) ==
    IF Len(a) # Len(b) \/ Len(a) = 0
    THEN 0
    ELSE LET dot == SumTo([i \in 1..Len(a) |-> Round(a[i] * b[i])], Len(a))
             norm_a == Sqrt(SumTo([i \in 1..Len(a) |-> Round(a[i] * a[i])], Len(a)))
             norm_b == Sqrt(SumTo([i \in 1..Len(b) |-> Round(b[i] * b[i])], Len(b)))
         IN  \* (each of the three values is computed once)
             CHOOSE c \in {IF p = 0 \/ q = 0 THEN 0 ELSE FDiv(d, FMul(p, q)) :
                              d \in {dot}, p \in {norm_a}, q \in {norm_b}} : TRUE

\* (variant: an entry whose age equals the TTL still counts as fresh)
EligibleLate(h, min_conf, ttl, t) ==
    /\ ~(ttl > 0 /\ (t - h.cached_at_ms) > ttl)
    /\ ~(h.confidence < min_conf)
    /\ h.condition_embedding # <<>>

\* The filter of find_matching_heuristics: not expired, confident enough,
\* with an embedding.
Eligible(h, min_conf, ttl, t) ==
    /\ ~(ttl > 0 /\ (t - h.cached_at_ms) >= ttl)
    /\ ~(h.confidence < min_conf)
    /\ h.condition_embedding # <<>>

\* (variant: the similarity threshold is not applied)
MatchingAny(hs, query_embedding, min_sim, min_conf, ttl, t) ==
    {<<i, cosine_similarity(query_embedding, hs[i].condition_embedding)>> :
        i \in {j \in DOMAIN hs : Eligible(hs[j], min_conf, ttl, t)}}

\* The (id, similarity) pairs that pass the similarity threshold.
Matching(hs, query_embedding, min_sim, min_conf, ttl, t) ==
    {p \in {<<i, cosine_similarity(query_embedding, hs[i].condition_embedding)>> :
               i \in {j \in DOMAIN hs : Eligible(hs[j], min_conf, ttl, t)}} :
        p[2] >= min_sim}

\* (variant: the sort is left out)
Unsorted(S) ==
    {s \in [1..Cardinality(S) -> S] :
        \A i, j \in DOMAIN s : i # j => s[i] # s[j]}

\* matches.sort_by(similarity descending): a stable sort of the map's
\* unspecified iteration order, so equal similarities come in any order.
SortedBySimilarity(S) ==
    {s \in [1..Cardinality(S) -> S] :
        /\ \A i, j \in DOMAIN s : i # j => s[i] # s[j]
        /\ \A i, j \in DOMAIN s : i < j => s[i][2] >= s[j][2]}

\* (variant: the list is never cut)
TruncateNever(s, limit) == s

\* if limit > 0 && matches.len() > limit { matches.truncate(limit) }
Truncate(s, limit) ==
    IF limit > 0 /\ Len(s) > limit THEN SubSeq(s, 1, limit) ELSE s

\* The lists find_matching_heuristics can return at clock value t.
find_matching_heuristics(hs, query_embedding, min_sim, min_conf, limit, ttl, t) ==
    IF query_embedding = <<>>
    THEN {<<>>}
    ELSE UNION {{Truncate(s, limit) : s \in SortedBySimilarity(matches)} :
                  matches \in {Matching(hs, query_embedding, min_sim,
                                         min_conf, ttl, t)}}

\* The ids get_heuristics_by_confidence returns at clock value t.
get_heuristics_by_confidence(hs, min_conf, ttl, t) ==
    {i \in DOMAIN hs :
        /\ hs[i].confidence >= min_conf
        /\ (ttl <= 0 \/ (t - hs[i].cached_at_ms) < ttl)}

\* ------------------------------------------------------------- the scorer
\* The clock values a later current_time_ms() can read after reading t.
ClockFrom(t) == {t} \cup ({t + 1} \cap (1..MaxTime))

\* Cache warming: add_heuristic for each heuristic of the storage reply, in
\* order, each call reading the clock.  Yields the caches and clock values
\* the loop can end with.
RECURSIVE WarmCache(_, _, _, _)
WarmCache(hs, cap, ids, t) ==
    IF ids = <<>>
    THEN {[cache |-> hs, clock |-> t]}
    ELSE UNION {UNION {WarmCache(c, cap, Tail(ids), t1) :
                         c \in add_heuristic(hs, cap, FromStorage(Head(ids)), t1)} :
                  t1 \in ClockFrom(t)}

\* A ScoredMatch built from a cache entry and its similarity.
ScoredMatch(h, sim) ==
    [heuristic_id |-> h.id,
     similarity |-> sim,
     confidence |-> h.confidence,
     salience_boost |-> h.action]

\* cache_matches.filter_map(get_heuristic -> ScoredMatch): hits that are no
\* longer resident are dropped.
RECURSIVE Materialise(_, _)
Materialise(hs, matches) ==
    IF matches = <<>>
    THEN <<>>
    ELSE LET m == Head(matches)
             rest == Materialise(hs, Tail(matches))
         IN  IF get_heuristic(hs, m[1]) = {}
             THEN rest
             ELSE <<ScoredMatch(hs[m[1]], m[2])>> \o rest

\* (variant: the matches come out in reverse order)
FallbackReversed(ids) ==
    [i \in 1..Len(ids) |-> ScoredMatch(FromStorage(ids[Len(ids) + 1 - i]), One)]

\* The matches of the storage fallback: one per heuristic, similarity 1.0.
FallbackMatches(ids) ==
    [i \in 1..Len(ids) |-> ScoredMatch(FromStorage(ids[i]), One)]

\* ------------------------------------------------------- SalienceService
Fields == {"threat", "opportunity", "humor", "novelty", "goal_relevance",
           "social", "emotional", "actionability", "habituation"}

\* The fields apply_salience_boost reads from the boost.
BoostedFields == {"threat", "opportunity", "humor", "novelty",
                  "goal_relevance", "social", "emotional", "actionability"}

MaxOf(a, b) == IF a >= b THEN a ELSE b

\* The default vector evaluate_salience starts from.
DefaultSalience ==
    [f \in Fields |-> IF f = "novelty" THEN baseline_novelty ELSE 0]

apply_salience_boost(salience, boost) ==
    [f \in Fields |->
        IF f \in BoostedFields /\ f \in DOMAIN boost /\ boost[f].kind = "number"
        THEN MaxOf(salience[f], boost[f].value)
        ELSE salience[f]]

\* (variant: the novelty boost is left out)
NoveltyKept(salience) == salience

\* salience.novelty = salience.novelty.max(unmatched_novelty_boost)
NoveltyBoosted(salience) ==
    [salience EXCEPT !.novelty = MaxOf(@, unmatched_novelty_boost)]

\* (variant: the unmatched boost is applied to an empty raw_text too)
EmptyTextBoosted ==
    [kind |-> "response",
     salience |-> NoveltyBoosted(DefaultSalience),
     from_cache |-> FALSE,
     matched_heuristic_id |-> "",
     error |-> ""]

\* The response to a request with an empty raw_text: scoring is skipped.
EmptyTextResponse ==
    [kind |-> "response",
     salience |-> DefaultSalience,
     from_cache |-> FALSE,
     matched_heuristic_id |-> "",
     error |-> ""]

\* (variant: the error text is dropped)
ErrorResponseSilent(e) ==
    [kind |-> "response",
     salience |-> NoveltyBoosted(DefaultSalience),
     from_cache |-> FALSE,
     matched_heuristic_id |-> "",
     error |-> ""]

\* Err(e): the early return with the error text.
ErrorResponse(e) ==
    [kind |-> "response",
     salience |-> NoveltyBoosted(DefaultSalience),
     from_cache |-> FALSE,
     matched_heuristic_id |-> "",
     error |-> e]

\* Ok(_) without a match: the novelty boost of the match arm and the one
\* after the match.
UnmatchedResponse ==
    [kind |-> "response",
     salience |-> NoveltyBoosted(NoveltyBoosted(DefaultSalience)),
     from_cache |-> FALSE,
     matched_heuristic_id |-> "",
     error |-> ""]

\* (variant: the last match is taken as the best)
MatchedLast(matches) ==
    [kind |-> "response",
     salience |-> apply_salience_boost(DefaultSalience,
                                       matches[Len(matches)].salience_boost),
     from_cache |-> TRUE,
     matched_heuristic_id |-> matches[Len(matches)].heuristic_id,
     error |-> ""]

\* Ok(matches) with a match: best = matches[0].
MatchedResponse(matches) ==
    [kind |-> "response",
     salience |-> apply_salience_boost(DefaultSalience,
                                       matches[1].salience_boost),
     from_cache |-> TRUE,
     matched_heuristic_id |-> matches[1].heuristic_id,
     error |-> ""]

\* The response evaluate_salience builds from what score returned.
ResponseFor(result) ==
    IF result.kind = "err"
    THEN ErrorResponse(result.error)
    ELSE IF result.matches = <<>>
    THEN UnmatchedResponse
    ELSE MatchedResponse(result.matches)

\* (variant: the misses in the numerator)
miss_rate(hits, misses) ==
    IF hits + misses = 0 THEN 0 ELSE (misses * One) \div (hits + misses)

\* CacheStats::hit_rate, in hundredths.
hit_rate(hits, misses) ==
    IF hits + misses = 0 THEN 0 ELSE (hits * One) \div (hits + misses)

\* ------------------------------------------------- GrpcStorageBackend
Malformed == "not-a-uuid"

\* An embedding value stands for the 32-bit pattern of the f32, read as a
\* two's-complement integer: a negative value is a pattern with the sign
\* bit set.
Low31(v) == IF v < 0 THEN (v + 2147483647) + 1 ELSE v

\* (variant: most significant byte first)
BeBytes(v) ==
    <<(Low31(v) \div 16777216) + (IF v < 0 THEN 128 ELSE 0),
      (Low31(v) \div 65536) % 256, (Low31(v) \div 256) % 256, Low31(v) % 256>>

LeBytes(v) ==
    <<Low31(v) % 256, (Low31(v) \div 256) % 256, (Low31(v) \div 65536) % 256,
      (Low31(v) \div 16777216) + (IF v < 0 THEN 128 ELSE 0)>>

FromLeBytes(chunk) ==
    LET low == chunk[1] + 256 * chunk[2] + 65536 * chunk[3]
                  + 16777216 * (chunk[4] % 128)
    IN  IF chunk[4] >= 128 THEN (low - 2147483647) - 1 ELSE low

RECURSIVE embedding_to_bytes(_)
embedding_to_bytes(embedding) ==
    IF embedding = <<>> THEN <<>>
    ELSE LeBytes(Head(embedding)) \o embedding_to_bytes(Tail(embedding))

\* chunks_exact(4): a remainder of fewer than four bytes is left out.
bytes_to_embedding(bytes) ==
    [i \in 1..(Len(bytes) \div 4) |-> FromLeBytes(SubSeq(bytes, 4 * i - 3, 4 * i))]

\* One HeuristicMatch of a storage reply: the heuristic field may be missing,
\* the id may not be a UUID, effects_json may not be JSON, and the embedding
\* bytes may have any length.
RawEmbeddings ==
    {<<>>, embedding_to_bytes(<<1, 0>>), embedding_to_bytes(<<1, 0>>) \o <<7>>,
     <<1, 0, 0>>}

RawMatches ==
    [present : {TRUE}, id : Ids \cup {Malformed}, effects_json : {"json", "garbage"},
     condition_embedding : RawEmbeddings]
    \cup {[present |-> FALSE, id |-> Malformed, effects_json |-> "garbage",
            condition_embedding |-> <<>>]}

RECURSIVE SeqsUpTo(_, _)
SeqsUpTo(S, n) ==
    IF n = 0 THEN {<<>>}
    ELSE SeqsUpTo(S, n - 1)
         \cup {Append(q, x) : q \in {r \in SeqsUpTo(S, n - 1) : Len(r) = n - 1}, x \in S}

\* What the storage service answers: a list of matches, or a failure of the
\* connection or of the query.
StorageDown == [kind |-> "unavailable"]

RawReplies == {[kind |-> "matches", matches |-> r] : r \in SeqsUpTo(RawMatches, MaxReturn)}

\* The filter_map closure: which matches are kept, and what becomes of them.
Kept(m) == m.present /\ m.id # Malformed

Converted(m) ==
    [id |-> m.id,
     action |-> IF m.effects_json = "json" THEN "effects" ELSE "{}",
     condition_embedding |->
         IF m.condition_embedding # <<>>
         THEN bytes_to_embedding(m.condition_embedding) ELSE <<>>,
     last_accessed_ms |-> 0, cached_at_ms |-> 0, hit_count |-> 0,
     last_hit_ms |-> 0]

RECURSIVE FilterMap(_)
FilterMap(matches) ==
    IF matches = <<>> THEN <<>>
    ELSE (IF Kept(Head(matches)) THEN <<Converted(Head(matches))>> ELSE <<>>)
         \o FilterMap(Tail(matches))

query_matching_heuristics(reply) ==
    IF reply.kind = "unavailable"
    THEN [kind |-> "err"]
    ELSE [kind |-> "ok", heuristics |-> FilterMap(reply.matches)]

\* ------------------------------------------------------------ trace ids
\* The x-gladys-trace-id header of an incoming request: absent, or a value.
NoHeader == "absent"
IngressHeaders == {NoHeader, "trace-a"}

generate_trace_id == "generated"

get_or_create_trace_id(header) ==
    IF header = NoHeader THEN generate_trace_id ELSE header

\* StorageClient::connect, then with_trace_id when the backend was given one.
Connected == [trace_id |-> NoHeader]

with_trace_id(client, tid) == [client EXCEPT !.trace_id = tid]

add_trace_header(client, request) ==
    IF client.trace_id # NoHeader
    THEN [request EXCEPT !.metadata = client.trace_id]
    ELSE request

\* The requests the client puts on the wire.
client_generate_embedding(client) ==
    [rpc |-> "GenerateEmbedding", metadata |-> NoHeader]

client_query_matching_heuristics(client) ==
    add_trace_header(client, [rpc |-> "QueryMatchingHeuristics", metadata |-> NoHeader])

\* The storage call a task has in flight, for a request that came in with
\* the given header: evaluate_salience passes Some(trace_id) to score, which
\* hands it to the backend for both calls.
NoCall == [rpc |-> "none", metadata |-> NoHeader]

OutboundCall(t, header) ==
    LET client == with_trace_id(Connected, get_or_create_trace_id(header))
    IN  CASE pc[t] = "embedding" -> client_generate_embedding(client)
          [] pc[t] = "querying" -> client_query_matching_heuristics(client)
          [] OTHER -> NoCall

\* Each backend method opens a connection of its own with
\* StorageClient::connect before it sends its request, so a call that came
\* back with a result has opened one.  The connections the running score
\* call of task t is known to have opened:
ConnectionsOpened(t) ==
    (IF embedding_result[t].kind = "ok" THEN 1 ELSE 0)
    + (IF storage_result[t].kind = "ok" THEN 1 ELSE 0)

\* ------------------------------------------------------------ the RwLock
NoResult == [kind |-> "none"]
NoRet == [op |-> "none"]

ReadFree == writer = NoTask
WriteFree == readers = {} /\ writer = NoTask

\* (variant: the read guard is not dropped)
KeepRead(t) == readers

\* drop(cache) of a read guard / of a write guard.
ReleaseRead(t) == readers \ {t}
\* (variant: the write guard is never dropped)
KeepWrite(t) == t

ReleaseWrite(t) == NoTask

\* -------------------------------------------------------------- the state
Init ==
    /\ heuristics = <<>>
    /\ total_hits = 0
    /\ total_misses = 0
    /\ max_heuristics \in 0..MaxCap
    /\ heuristic_ttl_ms \in {0, Ttl}
    /\ now = 1
    /\ calls = 0
    /\ readers = {}
    /\ writer = NoTask
    /\ pc = [t \in Tasks |-> "idle"]
    /\ raw_text = [t \in Tasks |-> ""]
    /\ embedding_result = [t \in Tasks |-> NoResult]
    /\ cache_matches = [t \in Tasks |-> <<>>]
    /\ storage_result = [t \in Tasks |-> NoResult]
    /\ score_result = [t \in Tasks |-> NoResult]
    /\ path = [t \in Tasks |-> "none"]
    /\ response = [t \in Tasks |-> NoResult]
    /\ ret = NoRet

\* The clock advances.
Tick ==
    /\ now < MaxTime
    /\ now' = now + 1
    /\ ret' = NoRet
    /\ UNCHANGED <<cacheVars, calls, lockVars, taskVars>>

\* ------------------------------------------- MemoryCache, called directly
\* cache.add_heuristic(h): the caller may pass timestamps (0 = unset, 1 =
\* the earliest time).
AddHeuristic ==
    \E id \in Ids, la \in {0, 1}, ca \in {0, 1} :
        /\ heuristics' \in add_heuristic(heuristics, max_heuristics,
                [FromStorage(id) EXCEPT !.last_accessed_ms = la,
                                        !.cached_at_ms = ca], now)
        /\ ret' = NoRet
        /\ UNCHANGED <<total_hits, total_misses, configVars, now, calls,
                       lockVars, taskVars>>

TouchHeuristic ==
    \E id \in Ids :
        /\ calls < MaxHits
        /\ calls' = calls + 1
        /\ heuristics' = touch_heuristic(heuristics, id, now)
        /\ ret' = NoRet
        /\ UNCHANGED <<total_hits, total_misses, configVars, now,
                       lockVars, taskVars>>

\* cache.get_heuristic(&id), a read through &self.
GetHeuristic ==
    \E id \in Ids :
        /\ ret' = [op |-> "get_heuristic", id |-> id,
                   found |-> get_heuristic(heuristics, id)]
        /\ UNCHANGED <<cacheVars, now, calls, lockVars, taskVars>>

RemoveHeuristic ==
    \E id \in Ids :
        /\ heuristics' = remove_heuristic(heuristics, id).cache
        /\ ret' = NoRet
        /\ UNCHANGED <<total_hits, total_misses, configVars, now, calls,
                       lockVars, taskVars>>

FlushHeuristics ==
    /\ heuristics' = flush_heuristics(heuristics).cache
    /\ ret' = NoRet
    /\ UNCHANGED <<total_hits, total_misses, configVars, now, calls,
                   lockVars, taskVars>>

\* The storage replies: lists of at most MaxReturn heuristics.
StorageIds == {"h1", "h2"}
StorageReplies == UNION {[1..n -> StorageIds] : n \in 0..MaxReturn}

\* ------------------------------------------- evaluate_salience and score
\* evaluate_salience is called: the default vector is built; an empty
\* raw_text skips scoring, otherwise score sends generate_embedding.
\* (The tasks are interchangeable: a task starts only while the tasks
\* before it are busy, which leaves one of each set of symmetric runs.)
StartEvaluate(t) ==
    /\ pc[t] = "idle"
    /\ \A u \in Tasks : u < t => pc[u] # "idle"
    /\ \E text \in {"", "event"} :
        /\ raw_text' = [raw_text EXCEPT ![t] = text]
        /\ IF text = ""
           THEN /\ pc' = [pc EXCEPT ![t] = "done"]
                /\ response' = [response EXCEPT ![t] = EmptyTextResponse]
           ELSE /\ pc' = [pc EXCEPT ![t] = "embedding"]
                /\ UNCHANGED response
    /\ ret' = NoRet
    /\ UNCHANGED <<cacheVars, now, calls, lockVars, embedding_result,
                   cache_matches, storage_result, score_result, path>>

\* score called with an empty event_text (by a caller other than
\* evaluate_salience, which never passes one): Ok(vec![]) at once.
ScoreEmptyText(t) ==
    /\ pc[t] = "idle"
    /\ \A u \in Tasks : u < t => pc[u] # "idle"
    /\ score_result' = [score_result EXCEPT ![t] = [kind |-> "ok", matches |-> <<>>]]
    /\ pc' = [pc EXCEPT ![t] = "returned"]
    /\ ret' = NoRet
    /\ UNCHANGED <<cacheVars, now, calls, lockVars, raw_text, embedding_result,
                   cache_matches, storage_result, path, response>>

\* generate_embedding returns: an embedding, or an error (then score goes
\* on to the storage query).
EmbeddingReturns(t) ==
    /\ pc[t] = "embedding"
    /\ \/ \E e \in QueryEmbeddings :
            /\ embedding_result' = [embedding_result EXCEPT ![t] =
                                       [kind |-> "ok", embedding |-> e]]
            /\ pc' = [pc EXCEPT ![t] = "want_read"]
       \/ /\ embedding_result' = [embedding_result EXCEPT ![t] = [kind |-> "err"]]
          /\ pc' = [pc EXCEPT ![t] = "querying"]
    /\ ret' = NoRet
    /\ UNCHANGED <<cacheVars, now, calls, lockVars, raw_text, cache_matches,
                   storage_result, score_result, response, path>>

\* self.cache.read().await before the lookup.
AcquireReadLookup(t) ==
    /\ pc[t] = "want_read"
    /\ ReadFree
    /\ readers' = readers \cup {t}
    /\ pc' = [pc EXCEPT ![t] = "lookup"]
    /\ ret' = NoRet
    /\ UNCHANGED <<cacheVars, now, calls, writer, raw_text, embedding_result,
                   cache_matches, storage_result, score_result, response, path>>

\* find_matching_heuristics under the read guard, then drop(cache).  An
\* empty result sends query_matching_heuristics.
Lookup(t) ==
    /\ pc[t] = "lookup"
    /\ readers' = ReleaseRead(t)
    /\ ret' = NoRet
    /\ UNCHANGED <<cacheVars, now, calls, writer, raw_text, embedding_result,
                   storage_result, score_result, response, path>>
    /\ \E m \in find_matching_heuristics(heuristics,
                    embedding_result[t].embedding, min_similarity,
                    min_confidence, CacheLookupLimit, heuristic_ttl_ms, now) :
        /\ cache_matches' = [cache_matches EXCEPT ![t] = m]
        /\ pc' = [pc EXCEPT ![t] = IF m # <<>> THEN "want_read2" ELSE "querying"]

\* self.cache.read().await before the hits are turned into ScoredMatch.
AcquireReadMaterialise(t) ==
    /\ pc[t] = "want_read2"
    /\ ReadFree
    /\ readers' = readers \cup {t}
    /\ pc' = [pc EXCEPT ![t] = "materialise"]
    /\ ret' = NoRet
    /\ UNCHANGED <<cacheVars, now, calls, writer, raw_text, embedding_result,
                   cache_matches, storage_result, score_result, response, path>>

\* The hits become ScoredMatch values and score returns them.
MaterialiseHits(t) ==
    /\ pc[t] = "materialise"
    /\ score_result' = [score_result EXCEPT ![t] =
          [kind |-> "ok", matches |-> Materialise(heuristics, cache_matches[t])]]
    /\ path' = [path EXCEPT ![t] = "cache"]
    /\ readers' = ReleaseRead(t)
    /\ pc' = [pc EXCEPT ![t] = "scored"]
    /\ ret' = NoRet
    /\ UNCHANGED <<cacheVars, now, calls, writer, raw_text, embedding_result,
                   cache_matches, storage_result, response>>

\* (variant: the storage error is swallowed)
EmptyOnError(e) == [kind |-> "ok", matches |-> <<>>]

\* .map_err(|e| ScoringError::StorageError(e))?
StorageError(e) == [kind |-> "err", error |-> e]

\* query_matching_heuristics returns: an error (score fails with
\* StorageError), an empty list (score returns it), or heuristics that are
\* to be put into the cache.
QueryReturns(t) ==
    /\ pc[t] = "querying"
    /\ path' = [path EXCEPT ![t] = "storage"]
    /\ \/ /\ storage_result' = [storage_result EXCEPT ![t] = [kind |-> "err"]]
          /\ score_result' = [score_result EXCEPT ![t] =
                                 StorageError("storage query failed")]
          /\ pc' = [pc EXCEPT ![t] = "scored"]
       \/ \E ids \in StorageReplies :
            /\ storage_result' = [storage_result EXCEPT ![t] =
                                     [kind |-> "ok", heuristics |-> ids]]
            /\ IF ids = <<>>
               THEN /\ score_result' = [score_result EXCEPT ![t] =
                                           [kind |-> "ok", matches |-> <<>>]]
                    /\ pc' = [pc EXCEPT ![t] = "scored"]
               ELSE /\ pc' = [pc EXCEPT ![t] = "want_write"]
                    /\ UNCHANGED score_result
    /\ ret' = NoRet
    /\ UNCHANGED <<cacheVars, now, calls, lockVars, raw_text,
                   embedding_result, cache_matches, response>>

\* self.cache.write().await before warming.
AcquireWriteWarm(t) ==
    /\ pc[t] = "want_write"
    /\ WriteFree
    /\ writer' = t
    /\ pc' = [pc EXCEPT ![t] = "warming"]
    /\ ret' = NoRet
    /\ UNCHANGED <<cacheVars, now, calls, readers, raw_text, embedding_result,
                   cache_matches, storage_result, score_result, response, path>>

\* Cache warming under the write guard; score returns the storage matches.
Warm(t) ==
    /\ pc[t] = "warming"
    /\ writer' = ReleaseWrite(t)
    /\ \E w \in WarmCache(heuristics, max_heuristics,
                          storage_result[t].heuristics, now) :
        /\ heuristics' = w.cache
        /\ now' = w.clock
    /\ score_result' = [score_result EXCEPT ![t] =
          [kind |-> "ok", matches |-> FallbackMatches(storage_result[t].heuristics)]]
    /\ pc' = [pc EXCEPT ![t] = "scored"]
    /\ ret' = NoRet
    /\ UNCHANGED <<total_hits, total_misses, configVars, calls, readers,
                   raw_text, embedding_result, cache_matches, storage_result,
                   response, path>>

\* score has returned to evaluate_salience (the locals of score are gone):
\* without a match the response is sent; with one, the boost is applied and
\* the bookkeeping asks for the write lock.
ScoreReturns(t) ==
    /\ pc[t] = "scored"
    /\ response' = [response EXCEPT ![t] = ResponseFor(score_result[t])]
    /\ pc' = [pc EXCEPT ![t] =
                IF score_result[t].kind = "ok" /\ score_result[t].matches # <<>>
                THEN "want_book" ELSE "done"]
    /\ embedding_result' = [embedding_result EXCEPT ![t] = NoResult]
    /\ cache_matches' = [cache_matches EXCEPT ![t] = <<>>]
    /\ storage_result' = [storage_result EXCEPT ![t] = NoResult]
    /\ ret' = NoRet
    /\ UNCHANGED <<cacheVars, now, calls, lockVars, raw_text, score_result, path>>

\* self.cache.write().await before the bookkeeping.
AcquireWriteBook(t) ==
    /\ pc[t] = "want_book"
    /\ WriteFree
    /\ writer' = t
    /\ pc' = [pc EXCEPT ![t] = "booking"]
    /\ ret' = NoRet
    /\ UNCHANGED <<cacheVars, now, calls, readers, raw_text, embedding_result,
                   cache_matches, storage_result, score_result, response, path>>

\* (variant: > instead of >=)
AboveOne(best) == best.similarity > One

\* if best.similarity >= 1.0: the match is taken to come from storage.
StorageMatch(best) == best.similarity >= One

\* (variant: a storage match is counted as a miss and as a hit)
BookBoth(t) ==
    /\ pc[t] = "booking"
    /\ LET best == score_result[t].matches[1] IN
        /\ IF StorageMatch(best)
           THEN /\ total_misses' = total_misses + 1
                /\ total_hits' = total_hits + 1
           ELSE /\ total_hits' = total_hits + 1
                /\ UNCHANGED total_misses
        /\ heuristics' = touch_heuristic(heuristics, best.heuristic_id, now)
    /\ writer' = ReleaseWrite(t)
    /\ pc' = [pc EXCEPT ![t] = "done"]
    /\ ret' = NoRet
    /\ UNCHANGED <<configVars, now, calls, readers, raw_text,
                   embedding_result, cache_matches, storage_result,
                   score_result, response, path>>

\* record_miss or record_hit, and touch_heuristic, for the best match; the
\* response is sent.
Book(t) ==
    /\ pc[t] = "booking"
    /\ LET best == score_result[t].matches[1] IN
        /\ IF StorageMatch(best)
           THEN /\ total_misses' = total_misses + 1
                /\ UNCHANGED total_hits
           ELSE /\ total_hits' = total_hits + 1
                /\ UNCHANGED total_misses
        /\ heuristics' = touch_heuristic(heuristics, best.heuristic_id, now)
    /\ writer' = ReleaseWrite(t)
    /\ pc' = [pc EXCEPT ![t] = "done"]
    /\ ret' = NoRet
    /\ UNCHANGED <<configVars, now, calls, readers, raw_text,
                   embedding_result, cache_matches, storage_result,
                   score_result, response, path>>

\* (variant: a cancelled request is counted as a miss on its way out)
CancelCountingMiss(t) ==
    /\ pc[t] \in {"embedding", "querying"}
    /\ pc' = [pc EXCEPT ![t] = "cancelled"]
    /\ total_misses' = total_misses + 1
    /\ embedding_result' = [embedding_result EXCEPT ![t] = NoResult]
    /\ cache_matches' = [cache_matches EXCEPT ![t] = <<>>]
    /\ ret' = NoRet
    /\ UNCHANGED <<heuristics, total_hits, configVars, now, calls, lockVars,
                   raw_text, storage_result, score_result, response, path>>

\* The caller goes away while the task is suspended on a storage call: the
\* future of evaluate_salience is dropped at that .await, its locals with it,
\* and nothing after the .await runs.
Cancel(t) ==
    /\ pc[t] \in {"embedding", "querying"}
    /\ pc' = [pc EXCEPT ![t] = "cancelled"]
    /\ embedding_result' = [embedding_result EXCEPT ![t] = NoResult]
    /\ cache_matches' = [cache_matches EXCEPT ![t] = <<>>]
    /\ ret' = NoRet
    /\ UNCHANGED <<cacheVars, now, calls, lockVars, raw_text, storage_result,
                   score_result, response, path>>

\* A termination signal reaches the process.  run_server awaits serve(addr)
\* and installs no signal handler, so the process ends at once: a request
\* not yet started is never accepted, and every request in flight ends
\* where it stands, with its locals and guards, and without a response.
Finished == {"done", "cancelled", "refused", "lost"}

Shutdown ==
    /\ \E t \in Tasks : pc[t] \notin Finished
    /\ pc' = [t \in Tasks |->
                IF pc[t] \in Finished THEN pc[t]
                ELSE IF pc[t] = "idle" THEN "refused" ELSE "lost"]
    /\ readers' = {}
    /\ writer' = NoTask
    /\ embedding_result' = [t \in Tasks |-> NoResult]
    /\ cache_matches' = [t \in Tasks |-> <<>>]
    /\ storage_result' = [t \in Tasks |-> NoResult]
    /\ ret' = NoRet
    /\ UNCHANGED <<cacheVars, now, calls, raw_text, score_result, response, path>>

\* ----------------------------------------------------- administrative RPCs
ChangeTypes == {"created", "updated", "deleted", "renamed"}

\* cache.record_hit() / cache.record_miss(), called directly.
RecordHit ==
    /\ total_hits < MaxRecords
    /\ total_hits' = total_hits + 1
    /\ ret' = NoRet
    /\ UNCHANGED <<heuristics, total_misses, configVars, now, calls, lockVars,
                   taskVars>>

RecordMiss ==
    /\ total_misses < MaxRecords
    /\ total_misses' = total_misses + 1
    /\ ret' = NoRet
    /\ UNCHANGED <<heuristics, total_hits, configVars, now, calls, lockVars,
                   taskVars>>

\* (variant: the flush also zeroes the hit and miss counters)
FlushCacheResetting ==
    /\ WriteFree
    /\ heuristics' = flush_heuristics(heuristics).cache
    /\ total_hits' = 0
    /\ total_misses' = 0
    /\ ret' = [op |-> "flush_cache",
               entries_flushed |-> flush_heuristics(heuristics).count]
    /\ UNCHANGED <<configVars, now, calls, lockVars, taskVars>>

FlushCache ==
    /\ WriteFree
    /\ heuristics' = flush_heuristics(heuristics).cache
    /\ ret' = [op |-> "flush_cache",
               entries_flushed |-> flush_heuristics(heuristics).count]
    /\ UNCHANGED <<total_hits, total_misses, configVars, now, calls,
                   lockVars, taskVars>>

EvictFromCache(id) ==
        IF id = Malformed
        THEN /\ ret' = [op |-> "evict_from_cache", status |-> "InvalidArgument"]
             /\ UNCHANGED <<cacheVars, now, calls, lockVars, taskVars>>
        ELSE /\ WriteFree
             /\ heuristics' = remove_heuristic(heuristics, id).cache
             /\ ret' = [op |-> "evict_from_cache", status |-> "ok",
                        found |-> remove_heuristic(heuristics, id).found]
             /\ UNCHANGED <<total_hits, total_misses, configVars, now, calls,
                            lockVars, taskVars>>

GetCacheStats ==
    /\ ReadFree
    /\ ret' = [op |-> "get_cache_stats",
               current_size |-> Cardinality(DOMAIN heuristics),
               max_capacity |-> max_heuristics,
               hit_rate |-> hit_rate(total_hits, total_misses),
               total_hits |-> total_hits,
               total_misses |-> total_misses]
    /\ UNCHANGED <<cacheVars, now, calls, lockVars, taskVars>>

\* The vectors cosine_similarity is called with: up to MaxDim components,
\* among them one whose square is beyond F32Max, and a norm that is a
\* whole number or an infinity.
Components == {0 - 4, 0, 3, 4, 40}

SumOfSquares(v) == SumTo([i \in 1..Len(v) |-> Round(v[i] * v[i])], Len(v))

Vectors ==
    {v \in SeqsUpTo(Components, MaxDim) :
        SumOfSquares(v) = Inf \/ \E r \in 0..F32Max : r * r = SumOfSquares(v)}

\* One call of cosine_similarity (a pure function: one call per behaviour
\* covers them all).
CosineCall ==
    /\ ret = NoRet
    /\ \E a \in Vectors, b \in Vectors :
          ret' = [op |-> "cosine_similarity", a |-> a, b |-> b,
                  result |-> cosine_similarity(a, b)]
    /\ UNCHANGED <<cacheVars, now, calls, lockVars, taskVars>>

\* The f32 values of a vector that is serialised: 0.0, the smallest
\* subnormal, 1.0, -1.0, -0.0, a NaN and patterns with one byte set.
BitPatterns ==
    {0, 1, 255, 256, 65536, 1065353216, 0 - 1082130432, (0 - 2147483647) - 1,
     2143289344}

\* embedding_to_bytes and bytes_to_embedding, one after the other (pure
\* functions: one call per behaviour covers them all).
RoundTrip ==
    /\ ret = NoRet
    /\ \E v \in SeqsUpTo(BitPatterns, MaxDim) :
          ret' = [op |-> "embedding_roundtrip", embedding |-> v,
                  bytes |-> embedding_to_bytes(v),
                  recovered |-> bytes_to_embedding(embedding_to_bytes(v))]
    /\ UNCHANGED <<cacheVars, now, calls, lockVars, taskVars>>

\* GrpcStorageBackend::query_matching_heuristics, answered by the storage
\* service with reply.  The backend keeps no state between queries, so one
\* query per behaviour covers them all.
BackendQuery ==
    /\ ret = NoRet
    /\ \E reply \in RawReplies \cup {StorageDown} :
          ret' = [op |-> "query_matching_heuristics", reply |-> reply,
                  result |-> query_matching_heuristics(reply)]
    /\ UNCHANGED <<cacheVars, now, calls, lockVars, taskVars>>

\* (variant: an unknown change_type is ignored)
NotifyKnownOnly(hs, id, change_type) ==
    CASE change_type \in {"created", "updated"} -> remove_heuristic(hs, id).cache
      [] change_type = "deleted" -> remove_heuristic(hs, id).cache
      [] OTHER -> hs

\* What notify_heuristic_change does to the cache for a parsed id, by
\* change_type.
NotifyEffect(hs, id, change_type) ==
    CASE change_type \in {"created", "updated"} -> remove_heuristic(hs, id).cache
      [] change_type = "deleted" -> remove_heuristic(hs, id).cache
      [] OTHER -> remove_heuristic(hs, id).cache

NotifyHeuristicChange(id, change_type) ==
        IF id = Malformed
        THEN /\ ret' = [op |-> "notify_heuristic_change",
                        status |-> "InvalidArgument"]
             /\ UNCHANGED <<cacheVars, now, calls, lockVars, taskVars>>
        ELSE /\ WriteFree
             /\ heuristics' = NotifyEffect(heuristics, id, change_type)
             /\ ret' = [op |-> "notify_heuristic_change", status |-> "ok",
                        success |-> TRUE]
             /\ UNCHANGED <<total_hits, total_misses, configVars, now, calls,
                            lockVars, taskVars>>

Next ==
    \/ Tick
    \/ \E t \in Tasks : StartEvaluate(t)
    \/ \E t \in Tasks : ScoreEmptyText(t)
    \/ \E t \in Tasks : EmbeddingReturns(t)
    \/ \E t \in Tasks : AcquireReadLookup(t)
    \/ \E t \in Tasks : Lookup(t)
    \/ \E t \in Tasks : AcquireReadMaterialise(t)
    \/ \E t \in Tasks : MaterialiseHits(t)
    \/ \E t \in Tasks : QueryReturns(t)
    \/ \E t \in Tasks : AcquireWriteWarm(t)
    \/ \E t \in Tasks : Warm(t)
    \/ \E t \in Tasks : ScoreReturns(t)
    \/ \E t \in Tasks : AcquireWriteBook(t)
    \/ \E t \in Tasks : Book(t)
    \/ \E t \in Tasks : Cancel(t)

\* The service starts with an empty cache (main).  max_heuristics = 0 makes
\* add_heuristic behave as max_heuristics = 1 does, and is left to SpecCache.
InitService ==
    /\ Init
    /\ max_heuristics >= 1
    /\ heuristic_ttl_ms = Ttl

Spec == InitService /\ [][Next]_vars

\* The administrative RPCs, on a cache filled by direct add_heuristic calls.
NextAdmin ==
    \/ Tick
    \/ AddHeuristic
    \/ FlushCache
    \/ \E id \in Ids \cup {Malformed} : EvictFromCache(id)
    \/ GetCacheStats
    \/ \E id \in Ids \cup {Malformed}, change_type \in ChangeTypes :
          NotifyHeuristicChange(id, change_type)

SpecAdmin == Init /\ [][NextAdmin]_vars

\* The service as a process that a termination signal can reach.
NextServer ==
    \/ Next
    \/ Shutdown

SpecServer == InitService /\ [][NextServer]_vars

\* The service under concurrent evaluate_salience calls and administrative
\* RPCs, at its largest configured capacity.  An administrative handler
\* takes the lock, acts and answers without an .await in between, so it is
\* one step that needs the lock to be free.
TaskStep(t) ==
    \/ StartEvaluate(t)
    \/ EmbeddingReturns(t)
    \/ AcquireReadLookup(t)
    \/ Lookup(t)
    \/ AcquireReadMaterialise(t)
    \/ MaterialiseHits(t)
    \/ QueryReturns(t)
    \/ AcquireWriteWarm(t)
    \/ Warm(t)
    \/ ScoreReturns(t)
    \/ AcquireWriteBook(t)
    \/ Book(t)

NextConcurrent ==
    \/ \E t \in Tasks : TaskStep(t)
    \/ FlushCache
    \/ \E id \in StorageIds : NotifyHeuristicChange(id, "updated")

InitConcurrent ==
    /\ InitService
    /\ max_heuristics = MaxCap

SpecConcurrent == InitConcurrent /\ [][NextConcurrent]_vars

\* The steps of a request that is under way: a storage call returns or
\* fails, the lock is handed to a task that waits for it, a handler that
\* holds what it needs goes on.
Running(t) ==
    \/ EmbeddingReturns(t)
    \/ AcquireReadLookup(t)
    \/ Lookup(t)
    \/ AcquireReadMaterialise(t)
    \/ MaterialiseHits(t)
    \/ QueryReturns(t)
    \/ AcquireWriteWarm(t)
    \/ Warm(t)
    \/ ScoreReturns(t)
    \/ AcquireWriteBook(t)
    \/ Book(t)

\* Requests run against a cache of one entry while flush_cache is called
\* at any time.
NextFair ==
    \/ \E t \in Tasks : TaskStep(t)
    \/ FlushCache

InitFair ==
    /\ InitService
    /\ max_heuristics = 1

\* The runtime does not stop while a request can take a step, and every
\* storage call returns or fails.  Nothing obliges a client to send a
\* request or an administrative RPC.
SpecFair ==
    /\ InitFair
    /\ [][NextFair]_vars
    /\ WF_vars(\E t \in Tasks : Running(t))

\* Touches and reads of single entries.
NextTouch ==
    \/ Tick
    \/ AddHeuristic
    \/ TouchHeuristic
    \/ GetHeuristic

SpecTouch == Init /\ [][NextTouch]_vars

\* cosine_similarity alone, on pairs of vectors.
NextCosine == CosineCall

SpecCosine == Init /\ [][NextCosine]_vars

\* The embedding conversions alone.
NextBytes == RoundTrip

SpecBytes == Init /\ [][NextBytes]_vars

\* The storage backend alone: replies of the storage service converted for
\* the scorer.
NextBackend == BackendQuery

SpecBackend == Init /\ [][NextBackend]_vars

\* The statistics: the counters moved by direct record_hit / record_miss
\* calls, read by GetCacheStats between insertions, flushes and evictions.
NextStats ==
    \/ AddHeuristic
    \/ RecordHit
    \/ RecordMiss
    \/ FlushCache
    \/ \E id \in Ids \cup {Malformed} : EvictFromCache(id)
    \/ GetCacheStats
    \/ \E id \in Ids \cup {Malformed}, change_type \in ChangeTypes :
          NotifyHeuristicChange(id, change_type)

SpecStats == Init /\ [][NextStats]_vars

NextCache ==
    \/ Tick
    \/ AddHeuristic
    \/ TouchHeuristic
    \/ RemoveHeuristic
    \/ FlushHeuristics

SpecCache == Init /\ [][NextCache]_vars

\* ================================================================ claims
\* The spec's definition of an expired heuristic.
Expired(h, ttl, t) == ttl > 0 /\ t - h.cached_at_ms >= ttl

IdsOf(matches) == {matches[i][1] : i \in DOMAIN matches}

\* C1: in every reachable state the number of resident heuristics is at
\* most max_heuristics, for every configured max_heuristics >= 0.
C1_SizeAtMostMax == Cardinality(DOMAIN heuristics) <= max_heuristics

\* C2: when an id that is not resident is added to a cache holding exactly
\* max_heuristics entries, exactly one resident entry is removed, and it is
\* one of minimal last_accessed_ms.
C2_FullAddEvictsOneOldest ==
    [][\A id \in Ids :
          (/\ id \notin DOMAIN heuristics
           /\ id \in DOMAIN heuristics'
           /\ Cardinality(DOMAIN heuristics) = max_heuristics)
          => \E o \in OldestIds(heuristics) :
                DOMAIN heuristics' = ((DOMAIN heuristics) \ {o}) \cup {id}]_vars

\* The inputs of the lookups that C3 ranges over.
TtlValues == {0 - 1, 0, Ttl}
Thresholds == {0, min_similarity}
LookupEmbeddings == {<<>>, <<1, 0>>, <<4, 3>>}

\* C3: an entry with heuristic_ttl_ms > 0 and now - cached_at_ms >=
\* heuristic_ttl_ms is returned neither by find_matching_heuristics nor by
\* get_heuristics_by_confidence, whatever its embedding and confidence; with
\* heuristic_ttl_ms <= 0 the age of an entry never keeps it out of a result.
C3_ExpiredNeverReturned ==
    \A ttl \in TtlValues, min_conf \in Thresholds :
        /\ \A i \in get_heuristics_by_confidence(heuristics, min_conf, ttl, now) :
              ~Expired(heuristics[i], ttl, now)
        /\ ttl <= 0 =>
              get_heuristics_by_confidence(heuristics, min_conf, ttl, now)
                 = {i \in DOMAIN heuristics : heuristics[i].confidence >= min_conf}
        /\ \A q \in LookupEmbeddings, min_sim \in Thresholds :
              \A m \in find_matching_heuristics(heuristics, q, min_sim,
                                                min_conf, 0, ttl, now) :
                 /\ \A i \in IdsOf(m) : ~Expired(heuristics[i], ttl, now)
                 /\ (ttl <= 0 /\ q # <<>>) =>
                       IdsOf(m) =
                          {i \in DOMAIN heuristics :
                              /\ heuristics[i].confidence >= min_conf
                              /\ heuristics[i].condition_embedding # <<>>
                              /\ cosine_similarity(q,
                                    heuristics[i].condition_embedding) >= min_sim}

\* C3 witness: a resident entry whose age has reached the configured TTL
\* and whose embedding equals the query is left out of the lookup.
C3_Witness ==
    \E i \in DOMAIN heuristics :
        /\ heuristic_ttl_ms > 0
        /\ now - heuristics[i].cached_at_ms = heuristic_ttl_ms
        /\ heuristics[i].condition_embedding = <<1, 0>>
        /\ heuristics[i].confidence >= min_confidence
        /\ \A m \in find_matching_heuristics(heuristics, <<1, 0>>,
                        min_similarity, min_confidence, 0, heuristic_ttl_ms, now) :
              i \notin IdsOf(m)
        /\ i \notin get_heuristics_by_confidence(heuristics, min_confidence,
                                                 heuristic_ttl_ms, now)

\* A step in which task t carries out the cache warming of score.
WarmStep(t) == pc[t] = "warming" /\ pc'[t] = "scored"

\* After the warming step, every heuristic of the storage reply is resident
\* with cached_at_ms read from the clock during warming.
AllWarmed(t) ==
    \A i \in DOMAIN storage_result[t].heuristics :
        LET id == storage_result[t].heuristics[i] IN
            /\ id \in DOMAIN heuristics'
            /\ heuristics'[id].cached_at_ms >= now
            /\ heuristics'[id].cached_at_ms <= now'

\* C4 (as claimed): after score returns through the storage fallback with a
\* non-empty result, every returned heuristic id is resident with
\* cached_at_ms set to the time of warming, for any number of returned
\* heuristics and any max_heuristics.
C4_EveryReturnedIdResident ==
    [][\A t \in Tasks : WarmStep(t) => AllWarmed(t)]_vars

\* C4 (amended): when the storage reply holds at most max_heuristics
\* heuristics and every entry resident when warming starts has a
\* last_accessed_ms below the clock at that moment, every returned id is
\* resident when warming ends, with cached_at_ms read during warming.
C4_ReturnedIdsResidentWhenRoom ==
    [][\A t \in Tasks :
          (/\ WarmStep(t)
           /\ Len(storage_result[t].heuristics) <= max_heuristics
           /\ \A r \in DOMAIN heuristics : heuristics[r].last_accessed_ms < now)
          => AllWarmed(t)]_vars

\* C4 witness: a reply of two heuristics has been warmed into a cache of
\* capacity two and score has returned them.
C4_Witness ==
    \E t \in Tasks :
        /\ pc[t] = "scored"
        /\ max_heuristics = 2
        /\ storage_result[t].kind = "ok"
        /\ storage_result[t].heuristics = <<"h2", "h1">>
        /\ {"h1", "h2"} \subseteq DOMAIN heuristics
        /\ heuristics["h1"].cached_at_ms = now
        /\ heuristics["h2"].cached_at_ms = now

\* C5: for a well-formed id and any change_type, when
\* notify_heuristic_change returns the id is not resident, every other
\* entry is unchanged and the response reports success; if the id was
\* absent the cache is unchanged.
C5_NotifyEvictsOnlyThatId ==
    [][\A id \in Ids, change_type \in ChangeTypes :
          NotifyHeuristicChange(id, change_type) =>
            /\ id \notin DOMAIN heuristics'
            /\ DOMAIN heuristics' = (DOMAIN heuristics) \ {id}
            /\ \A o \in DOMAIN heuristics' : heuristics'[o] = heuristics[o]
            /\ id \notin DOMAIN heuristics => heuristics' = heuristics
            /\ total_hits' = total_hits /\ total_misses' = total_misses
            /\ ret'.status = "ok" /\ ret'.success = TRUE]_vars

\* C5 witness: a notification has just been answered with success and
\* another entry is still resident.
C5_Witness ==
    /\ ret.op = "notify_heuristic_change"
    /\ ret.status = "ok"
    /\ ret.success = TRUE
    /\ Cardinality(DOMAIN heuristics) = 1
    /\ max_heuristics = 2

\* C6: a task suspended on generate_embedding or query_matching_heuristics
\* holds neither side of the cache lock.
C6_NoLockAcrossNetworkCall ==
    \A t \in Tasks :
        pc[t] \in {"embedding", "querying"} => (t \notin readers /\ writer # t)

\* C6 witness: a task is suspended on the storage query after its cache
\* lookup (it has taken and dropped the read lock) while the other task
\* holds the write lock.
C6_Witness ==
    \E t, u \in Tasks :
        /\ pc[t] = "querying"
        /\ embedding_result[t].kind = "ok"
        /\ writer = u

\* C7: score fails with StorageError exactly when the storage query was
\* reached and failed; after a failed generate_embedding score returns the
\* storage query's results.
C7_ErrorIffQueryFails ==
    \A t \in Tasks :
        pc[t] = "scored" =>
            /\ score_result[t].kind = "err" <=> storage_result[t].kind = "err"
            /\ (embedding_result[t].kind = "err" /\ storage_result[t].kind = "ok")
                 => /\ score_result[t].kind = "ok"
                    /\ Len(score_result[t].matches)
                          = Len(storage_result[t].heuristics)

\* C7 witness: generate_embedding failed, the storage query answered with a
\* heuristic, and score returned it.
C7_Witness ==
    \E t \in Tasks :
        /\ pc[t] = "scored"
        /\ embedding_result[t].kind = "err"
        /\ storage_result[t].kind = "ok"
        /\ score_result[t].kind = "ok"
        /\ Len(score_result[t].matches) = 1

SortedDescending(matches) ==
    \A i, j \in DOMAIN matches :
        i < j => matches[i].similarity >= matches[j].similarity

C9_FallbackKeepsOrder ==
    \A t \in Tasks :
        (pc[t] = "scored" /\ storage_result[t].kind = "ok") =>
            /\ score_result[t].kind = "ok"
            /\ Len(score_result[t].matches) = Len(storage_result[t].heuristics)
            /\ \A i \in DOMAIN score_result[t].matches :
                  /\ score_result[t].matches[i].heuristic_id
                        = storage_result[t].heuristics[i]
                  /\ score_result[t].matches[i].similarity = One

\* C9 witness: storage returned h2 then h1 and score returned them so.
C9_Witness ==
    \E t \in Tasks :
        /\ pc[t] = "scored"
        /\ storage_result[t].kind = "ok"
        /\ storage_result[t].heuristics = <<"h2", "h1">>
        /\ score_result[t].matches[1].heuristic_id = "h2"
        /\ score_result[t].matches[2].heuristic_id = "h1"

\* C10: every ScoredMatch score produces on the cache lookup path has a
\* similarity in [min_similarity, 1.0), also when the query embedding equals
\* the cached condition embedding.
C10_CacheSimilarityBelowOne ==
    \A t \in Tasks :
        (/\ pc[t] = "scored"
         /\ storage_result[t] = NoResult
         /\ score_result[t].kind = "ok") =>
            \A i \in DOMAIN score_result[t].matches :
                /\ score_result[t].matches[i].similarity >= min_similarity
                /\ score_result[t].matches[i].similarity < One

\* A step in which task t does the cache bookkeeping of evaluate_salience.
BookStep(t) == pc[t] = "booking" /\ pc'[t] = "done"

CountersChange == total_hits' # total_hits \/ total_misses' # total_misses

\* Task t has a response that names a matched heuristic.
Matched(t) ==
    /\ score_result[t].kind = "ok"
    /\ score_result[t].matches # <<>>
    /\ response[t] # NoResult

\* C11: an evaluate_salience whose winning match came from the cache lookup
\* increments total_hits by one and leaves total_misses unchanged; one whose
\* winning match came from the storage fallback increments total_misses by
\* one and leaves total_hits unchanged.
C11_CountersFollowPath ==
    [][\A t \in Tasks :
          BookStep(t) =>
            /\ path[t] = "cache" =>
                  (total_hits' = total_hits + 1 /\ total_misses' = total_misses)
            /\ path[t] = "storage" =>
                  (total_misses' = total_misses + 1 /\ total_hits' = total_hits)]_vars

C13_ScoringErrorResponse ==
    [][/\ \A t \in Tasks :
            (pc[t] = "scored" /\ score_result[t].kind = "err" /\ pc'[t] # "scored")
            => /\ pc'[t] = "done"
               /\ response'[t].error # ""
               /\ response'[t].from_cache = FALSE
               /\ response'[t].matched_heuristic_id = ""
               /\ response'[t].salience.novelty >= baseline_novelty
               /\ response'[t].salience.novelty >= unmatched_novelty_boost
               /\ response'[t].salience.novelty
                     \in {baseline_novelty, unmatched_novelty_boost}
               /\ \A f \in Fields \ {"novelty"} : response'[t].salience[f] = 0
               /\ heuristics' = heuristics
               /\ ~CountersChange
       /\ \A t \in Tasks :
            (score_result[t].kind = "err" /\ pc'[t] # pc[t])
            => (heuristics' = heuristics /\ ~CountersChange)]_vars

\* C13 witness: a request whose storage query failed has been answered.
C13_Witness ==
    \E t \in Tasks :
        /\ pc[t] = "done"
        /\ score_result[t].kind = "err"
        /\ response[t].error # ""
        /\ response[t].salience.novelty = unmatched_novelty_boost

\* C14: when raw_text is non-empty and the scorer returns zero matches,
\* evaluate_salience returns from_cache = false, matched_heuristic_id = "",
\* error = "", novelty = max(baseline_novelty, unmatched_novelty_boost) and
\* every other salience field 0.
C14_NoMatchResponse ==
    \A t \in Tasks :
        (/\ pc[t] = "done"
         /\ raw_text[t] # ""
         /\ score_result[t].kind = "ok"
         /\ score_result[t].matches = <<>>)
        => /\ response[t].from_cache = FALSE
           /\ response[t].matched_heuristic_id = ""
           /\ response[t].error = ""
           /\ response[t].salience.novelty >= baseline_novelty
           /\ response[t].salience.novelty >= unmatched_novelty_boost
           /\ response[t].salience.novelty
                 \in {baseline_novelty, unmatched_novelty_boost}
           /\ \A f \in Fields \ {"novelty"} : response[t].salience[f] = 0

\* C14 witness: storage answered a non-empty text with no heuristic and the
\* request has been answered.
C14_Witness ==
    \E t \in Tasks :
        /\ pc[t] = "done"
        /\ raw_text[t] = "event"
        /\ path[t] = "storage"
        /\ score_result[t] = [kind |-> "ok", matches |-> <<>>]
        /\ response[t].salience.novelty = unmatched_novelty_boost

\* C15: with an empty raw_text evaluate_salience makes no scorer, embedding
\* or storage call, leaves the cache, its counters and its lock alone and
\* returns from_cache = false, matched_heuristic_id = "" and novelty exactly
\* baseline_novelty; score("") returns an empty list without calling storage.
C15_EmptyTextSkipsScoring ==
    [][\A t \in Tasks :
          /\ (pc[t] = "idle" /\ pc'[t] # "idle" /\ raw_text'[t] = "")
             => /\ heuristics' = heuristics
                /\ ~CountersChange
                /\ readers' = readers /\ writer' = writer
                /\ embedding_result'[t] = NoResult
                /\ storage_result'[t] = NoResult
                /\ path'[t] = "none"
                /\ pc'[t] \in {"done", "returned"}
                /\ pc'[t] = "done" =>
                      /\ score_result'[t] = NoResult
                      /\ response'[t].from_cache = FALSE
                      /\ response'[t].matched_heuristic_id = ""
                      /\ response'[t].error = ""
                      /\ response'[t].salience.novelty = baseline_novelty
                      /\ \A f \in Fields \ {"novelty"} :
                            response'[t].salience[f] = 0
                /\ pc'[t] = "returned" =>
                      score_result'[t] = [kind |-> "ok", matches |-> <<>>]
          /\ pc[t] \in {"done", "returned"} => pc'[t] = pc[t]]_vars

\* C15 witness: one request with an empty raw_text has been answered with
\* the baseline novelty and one direct score("") has returned.
C15_Witness ==
    \E t, u \in Tasks :
        /\ pc[t] = "done"
        /\ raw_text[t] = ""
        /\ response[t].salience.novelty = baseline_novelty
        /\ baseline_novelty # unmatched_novelty_boost
        /\ pc[u] = "returned"
        /\ score_result[u].matches = <<>>

\* The numeric value the boost holds for field f, if any.
NumericIn(boost, f) == f \in DOMAIN boost /\ boost[f].kind = "number"

\* C16: when the scorer returns at least one match, evaluate_salience uses
\* only the first: matched_heuristic_id is its id, from_cache is true on
\* either path, every salience field is the default or the value of the
\* first match's boost, and the unmatched novelty boost is not applied.
C16_FirstMatchWins ==
    \A t \in Tasks :
        Matched(t) =>
          LET best == score_result[t].matches[1]
              r == response[t]
          IN  /\ r.matched_heuristic_id = best.heuristic_id
              /\ r.from_cache = TRUE
              /\ r.error = ""
              /\ \A f \in Fields :
                    /\ r.salience[f] >= DefaultSalience[f]
                    /\ \/ r.salience[f] = DefaultSalience[f]
                       \/ /\ NumericIn(best.salience_boost, f)
                          /\ r.salience[f] = best.salience_boost[f].value
              /\ ~NumericIn(best.salience_boost, "novelty")
                    => r.salience.novelty = baseline_novelty
              /\ (NumericIn(best.salience_boost, "novelty")
                    /\ best.salience_boost.novelty.value <= baseline_novelty)
                    => r.salience.novelty = baseline_novelty

\* C16 witness: storage returned h2 then h1; the response names h2, carries
\* h2's opportunity boost and nothing of h1's threat boost.
C16_Witness ==
    \E t \in Tasks :
        /\ pc[t] = "done"
        /\ path[t] = "storage"
        /\ Matched(t)
        /\ Len(score_result[t].matches) = 2
        /\ score_result[t].matches[2].heuristic_id = "h1"
        /\ response[t].matched_heuristic_id = "h2"
        /\ response[t].from_cache = TRUE
        /\ response[t].salience.opportunity = 60
        /\ response[t].salience.threat = 0
        /\ response[t].salience.novelty = baseline_novelty

\* C17: for each of the nine SalienceVector fields for which the boost of
\* the winning match holds a number, the returned field is max(default,
\* boost); every field absent from the boost keeps its default.
C17_NineFieldsMerged ==
    \A t \in Tasks :
        Matched(t) =>
          LET boost == score_result[t].matches[1].salience_boost
              r == response[t]
          IN  \A f \in Fields :
                IF NumericIn(boost, f)
                THEN /\ r.salience[f] >= DefaultSalience[f]
                     /\ r.salience[f] >= boost[f].value
                     /\ r.salience[f] \in {DefaultSalience[f], boost[f].value}
                ELSE r.salience[f] = DefaultSalience[f]

\* C18: a boost value that is not a number or lies outside [0,1] is
\* ignored, so every field of a returned salience vector lies in [0,1].
C18_SalienceInUnitRange ==
    \A t \in Tasks :
        response[t] # NoResult =>
            \A f \in Fields :
                response[t].salience[f] >= 0 /\ response[t].salience[f] <= One

\* The caches left by touching id and then adding the absent id new.
TouchThenAdd(id, new) ==
    add_heuristic(touch_heuristic(heuristics, id, now), max_heuristics,
                  FromStorage(new), now)

\* The touched entry id stays and the entry evicted for new is one of
\* minimal last_accessed_ms among the other entries.
SecondOldestEvicted(id, new) ==
    \A r \in TouchThenAdd(id, new) :
        /\ id \in DOMAIN r
        /\ \E o \in OldestIds(Remove(heuristics, id)) :
              DOMAIN r = ((DOMAIN heuristics) \ {o}) \cup {new}

\* C19 (as claimed): if the entry with the lowest last_accessed_ms of a full
\* cache is touched and a new id is then added, the entry evicted is the one
\* that had the second-lowest last_accessed_ms and the touched entry stays.
C19_TouchedOldestSurvives ==
    \A id \in OldestIds(heuristics), new \in Ids \ DOMAIN heuristics :
        Cardinality(DOMAIN heuristics) = max_heuristics
            => SecondOldestEvicted(id, new)

\* C19 (amended): the same, for a full cache of at least two entries in
\* which every other entry was last accessed before the time of the touch.
C19_TouchedOldestSurvivesAmongTwo ==
    \A id \in OldestIds(heuristics), new \in Ids \ DOMAIN heuristics :
        (/\ Cardinality(DOMAIN heuristics) = max_heuristics
         /\ max_heuristics >= 2
         /\ \A o \in (DOMAIN heuristics) \ {id} :
               heuristics[o].last_accessed_ms < now)
        => SecondOldestEvicted(id, new)

\* C19 witness: a full cache of two entries, both last accessed before now;
\* touching the older one and adding a third id evicts the other one.
C19_Witness ==
    \E id \in OldestIds(heuristics), new \in Ids \ DOMAIN heuristics :
        /\ max_heuristics = 2
        /\ Cardinality(DOMAIN heuristics) = 2
        /\ \A o \in (DOMAIN heuristics) \ {id} :
              /\ heuristics[o].last_accessed_ms < now
              /\ heuristics[o].last_accessed_ms > heuristics[id].last_accessed_ms
        /\ \A r \in TouchThenAdd(id, new) : DOMAIN r = {id, new}

\* C20: add_heuristic with an id that is already resident leaves the set of
\* resident ids as it was, also when the cache holds max_heuristics entries.
C20_ReaddKeepsResidents ==
    \A id \in DOMAIN heuristics :
        \A r \in add_heuristic(heuristics, max_heuristics, FromStorage(id), now) :
            DOMAIN r = DOMAIN heuristics

Limits == 0..2

\* The (id, similarity) pairs the spec makes eligible for a lookup.
EligiblePairs(q, min_sim, min_conf, ttl) ==
    {p \in {<<i, cosine_similarity(q, heuristics[i].condition_embedding)>> :
               i \in {j \in DOMAIN heuristics :
                        /\ ~Expired(heuristics[j], ttl, now)
                        /\ heuristics[j].confidence >= min_conf
                        /\ heuristics[j].condition_embedding # <<>>}} :
        p[2] >= min_sim}

\* C21: find_matching_heuristics returns only ids of resident entries that
\* are not expired, have confidence >= min_conf, a non-empty
\* condition_embedding and cosine similarity >= min_sim to the query, each
\* with that similarity; for an empty query embedding it returns the empty
\* list.
C21_OnlyEligibleReturned ==
    \A q \in LookupEmbeddings, min_sim \in Thresholds,
       min_conf \in Thresholds, limit \in {0}, ttl \in {heuristic_ttl_ms} :
        \A m \in find_matching_heuristics(heuristics, q, min_sim, min_conf,
                                          limit, ttl, now) :
            /\ q = <<>> => m = <<>>
            /\ \A k \in DOMAIN m :
                  LET i == m[k][1] IN
                    /\ i \in DOMAIN heuristics
                    /\ ~Expired(heuristics[i], ttl, now)
                    /\ heuristics[i].confidence >= min_conf
                    /\ heuristics[i].condition_embedding # <<>>
                    /\ m[k][2] = cosine_similarity(q,
                                     heuristics[i].condition_embedding)
                    /\ m[k][2] >= min_sim

\* C21 witness: h1 and h3 (which has no embedding) are resident and fresh;
\* a lookup for h1's embedding with no thresholds returns h1 alone, and a
\* lookup with a query orthogonal to nothing but below the threshold for h1
\* returns nothing.
C21_Witness ==
    /\ {"h1", "h3"} \subseteq DOMAIN heuristics
    /\ ~Expired(heuristics["h1"], heuristic_ttl_ms, now)
    /\ find_matching_heuristics(heuristics, <<1, 0>>, 0, 0, 0,
                                heuristic_ttl_ms, now) = {<< <<"h1", One>> >>}
    /\ find_matching_heuristics(heuristics, <<4, 3>>, min_similarity + 20, 0, 0,
                                heuristic_ttl_ms, now) = {<<>>}

\* C22: the list find_matching_heuristics returns is sorted by similarity
\* descending, holds no entry twice and, when limit > 0, holds the
\* min(limit, number eligible) eligible entries of highest similarity; with
\* limit = 0 it holds every eligible entry.
C22_SortedAndTruncated ==
    \A q \in LookupEmbeddings \ {<<>>}, min_sim \in Thresholds :
        LET ttl == heuristic_ttl_ms
            E == EligiblePairs(q, min_sim, min_confidence, ttl)
            n == Cardinality(E)
        IN
        \A limit \in Limits :
        \A m \in find_matching_heuristics(heuristics, q, min_sim,
                                          min_confidence, limit, ttl, now) :
            /\ \A j, k \in DOMAIN m : j < k => m[j][2] >= m[k][2]
            /\ \A j, k \in DOMAIN m : j # k => m[j] # m[k]
            /\ Range(m) \subseteq E
            /\ limit = 0 => Len(m) = n
            /\ limit > 0 => Len(m) = IF limit < n THEN limit ELSE n
            /\ \A e \in E \ Range(m) : \A k \in DOMAIN m : m[k][2] >= e[2]

\* C22 witness: h1 and h2 are both eligible for the query (4,3); with
\* limit 1 only h2, the more similar, is returned, with limit 0 both.
C22_Witness ==
    /\ Cardinality(EligiblePairs(<<4, 3>>, min_similarity, min_confidence,
                                 heuristic_ttl_ms)) = 2
    /\ find_matching_heuristics(heuristics, <<4, 3>>, min_similarity,
                                min_confidence, 1, heuristic_ttl_ms, now)
          = {<< <<"h2", 96>> >>}
    /\ find_matching_heuristics(heuristics, <<4, 3>>, min_similarity,
                                min_confidence, 0, heuristic_ttl_ms, now)
          = {<< <<"h2", 96>>, <<"h1", 80>> >>}


\* C23: EvictFromCache with a malformed id answers InvalidArgument and leaves
\* the cache as it was; with a well-formed id it removes exactly that entry,
\* leaves every other entry and both counters untouched, and reports found =
\* TRUE exactly when the id was cached before the call.
C23_EvictRemovesExactlyThatId ==
    [][\A id \in Ids \cup {Malformed} :
          EvictFromCache(id) =>
              IF id = Malformed
              THEN /\ ret'.status = "InvalidArgument"
                   /\ heuristics' = heuristics
                   /\ total_hits' = total_hits
                   /\ total_misses' = total_misses
              ELSE /\ ret'.status = "ok"
                   /\ ret'.found = (id \in DOMAIN heuristics)
                   /\ DOMAIN heuristics' = DOMAIN heuristics \ {id}
                   /\ \A o \in DOMAIN heuristics' : heuristics'[o] = heuristics[o]
                   /\ total_hits' = total_hits
                   /\ total_misses' = total_misses]_vars

\* C23 witness: an eviction found its id and another entry is still cached.
C23_Witness ==
    /\ ret.op = "evict_from_cache"
    /\ ret.status = "ok"
    /\ ret.found
    /\ Cardinality(DOMAIN heuristics) = 1

\* C24: FlushCache empties the cache and reports the number of entries it
\* held just before; GetCacheStats reports the current size and capacity and
\* changes nothing; and no handler other than an insertion ever adds an id.
C24_FlushReportsPriorCount ==
    [][/\ FlushCache =>
            /\ DOMAIN heuristics' = {}
            /\ ret'.entries_flushed = Cardinality(DOMAIN heuristics)
       /\ GetCacheStats =>
            /\ heuristics' = heuristics
            /\ ret'.current_size = Cardinality(DOMAIN heuristics)
            /\ ret'.max_capacity = max_heuristics
       /\ ~(DOMAIN heuristics' \subseteq DOMAIN heuristics) => AddHeuristic]_vars

\* C24 witness: a flush that removed two entries.
C24_Witness ==
    /\ ret.op = "flush_cache"
    /\ ret.entries_flushed = 2
    /\ DOMAIN heuristics = {}

\* C25: GetCacheStats reports the two counters as they are, and a hit rate
\* that is 0 when both are 0 and otherwise hits / (hits + misses) (here in
\* hundredths, rounded down).
C25_StatsReportCountersAndRate ==
    ret.op = "get_cache_stats" =>
        /\ ret.total_hits = total_hits
        /\ ret.total_misses = total_misses
        /\ IF total_hits + total_misses = 0
           THEN ret.hit_rate = 0
           ELSE /\ ret.hit_rate * (total_hits + total_misses) <= total_hits * One
                /\ total_hits * One < (ret.hit_rate + 1) * (total_hits + total_misses)

\* C25 witness: statistics read with one hit and two misses on the counters.
C25_Witness ==
    /\ ret.op = "get_cache_stats"
    /\ ret.total_hits = 1
    /\ ret.total_misses = 2
    /\ ret.hit_rate = 33

\* C26: total_hits and total_misses never decrease in any step; flushing,
\* evicting or invalidating entries does not reset them.
C26_CountersNeverDecrease ==
    [][total_hits' >= total_hits /\ total_misses' >= total_misses]_vars

\* C26 witness: a flush removed entries while both counters were positive,
\* and they still are.
C26_Witness ==
    /\ ret.op = "flush_cache"
    /\ ret.entries_flushed >= 1
    /\ total_hits >= 1
    /\ total_misses >= 1


\* The spec's well-formed storage entry: a UUID for an id, effects that
\* parse as JSON, and embedding bytes that are a whole number of f32 values.
WellFormed(m) ==
    /\ m.present
    /\ m.id # Malformed
    /\ m.effects_json = "json"
    /\ Len(m.condition_embedding) % 4 = 0

C28_TraceIdOnQuery ==
    \A t \in Tasks, header \in IngressHeaders :
        pc[t] = "querying" =>
            OutboundCall(t, header).metadata = get_or_create_trace_id(header)


\* The positions at which a request has not yet written to the cache: the
\* first write of score is the warming, the first write of
\* evaluate_salience the bookkeeping.
Unwritten ==
    {"idle", "embedding", "want_read", "lookup", "want_read2", "materialise",
     "querying", "want_write", "warming"}

CacheState == <<heuristics, total_hits, total_misses>>

\* C29: a request cancelled while its storage call is in flight has made and
\* makes no cache mutation.  A request is cancelled only at a position where
\* it has not yet written, the cancellation itself changes neither the
\* resident heuristics nor the counters nor a lock, a cancelled request takes
\* no further step, the only steps of a request that change the cache are
\* the warming and the bookkeeping, and a request that has got that far
\* never comes back to a position before them.
C29_CancelledRequestNeverMutates ==
    [][\A t \in Tasks :
          /\ (pc[t] # "cancelled" /\ pc'[t] = "cancelled") =>
                /\ pc[t] \in {"embedding", "querying"}
                /\ CacheState' = CacheState
                /\ readers' = readers /\ writer' = writer
                /\ t \notin readers /\ writer # t
          /\ pc[t] = "cancelled" => pc'[t] = "cancelled"
          /\ (pc'[t] # pc[t] /\ CacheState' # CacheState) =>
                pc[t] \in {"warming", "booking"}
          /\ pc[t] \notin Unwritten => pc'[t] \notin Unwritten
          /\ (pc[t] = "warming" /\ pc'[t] # pc[t]) => pc'[t] \notin Unwritten]_vars

\* C29 witness: one request was cancelled during its storage call while the
\* other one warmed the cache and was booked.
C29_Witness ==
    \E t, u \in Tasks :
        /\ pc[t] = "cancelled"
        /\ pc[u] = "done"
        /\ heuristics # <<>>
        /\ total_misses = 1


\* C30: on a shutdown signal every request already in flight runs to its
\* response before the server exits; no in-flight request is lost.
C30_NoInFlightRequestLost ==
    \A t \in Tasks : pc[t] # "lost"


\* The exact (real-number) notions the spec speaks of.
ZeroNorm(v) == \A i \in 1..Len(v) : v[i] = 0

RECURSIVE ExactDot(_, _, _)
ExactDot(a, b, n) == IF n = 0 THEN 0 ELSE a[n] * b[n] + ExactDot(a, b, n - 1)

\* C32: cosine_similarity returns exactly 0 when the vectors differ in
\* length, when either is empty or when either has zero norm; it returns 1
\* for a vector of non-zero norm compared with itself, and 0 for orthogonal
\* vectors.
C32_CosineSpecialCases ==
    ret.op = "cosine_similarity" =>
        /\ (Len(ret.a) # Len(ret.b) \/ ret.a = <<>> \/ ret.b = <<>>
              \/ ZeroNorm(ret.a) \/ ZeroNorm(ret.b)) => ret.result = 0
        /\ (ret.a = ret.b /\ ~ZeroNorm(ret.a)) => ret.result = One
        /\ (Len(ret.a) = Len(ret.b) /\ ExactDot(ret.a, ret.b, Len(ret.a)) = 0)
              => ret.result = 0

\* The same with every square within the finite range of f32.
C32_CosineSpecialCasesInRange ==
    (/\ ret.op = "cosine_similarity"
     /\ SumOfSquares(ret.a) # Inf
     /\ SumOfSquares(ret.b) # Inf) =>
        /\ (Len(ret.a) # Len(ret.b) \/ ret.a = <<>> \/ ret.b = <<>>
              \/ ZeroNorm(ret.a) \/ ZeroNorm(ret.b)) => ret.result = 0
        /\ (ret.a = ret.b /\ ~ZeroNorm(ret.a)) => ret.result = One
        /\ (Len(ret.a) = Len(ret.b) /\ ExactDot(ret.a, ret.b, Len(ret.a)) = 0)
              => ret.result = 0


\* Byte k (0 = least significant) of the 32-bit pattern v.
ByteOf(v, k) ==
    LET low == IF v < 0 THEN (v + 2147483647) + 1 ELSE v
    IN  CASE k = 0 -> low % 256
          [] k = 1 -> (low \div 256) % 256
          [] k = 2 -> (low \div 65536) % 256
          [] k = 3 -> (low \div 16777216) + (IF v < 0 THEN 128 ELSE 0)

\* C33: bytes_to_embedding(embedding_to_bytes(v)) = v for every vector v,
\* and embedding_to_bytes(v) has 4 * Len(v) bytes, the four bytes of value i
\* at positions 4i-3 .. 4i, least significant first.
C33_BytesRoundTrip ==
    ret.op = "embedding_roundtrip" =>
        /\ ret.recovered = ret.embedding
        /\ Len(ret.bytes) = 4 * Len(ret.embedding)
        /\ \A i \in 1..Len(ret.embedding), k \in 0..3 :
              ret.bytes[4 * (i - 1) + k + 1] = ByteOf(ret.embedding[i], k)

\* C33 witness: the vector <<1.0, -1.0>> went through both conversions, as
\* the bytes 00 00 80 3f 00 00 80 bf.
C33_Witness ==
    /\ ret.op = "embedding_roundtrip"
    /\ ret.embedding = <<1065353216, 0 - 1082130432>>
    /\ ret.bytes = <<0, 0, 128, 63, 0, 0, 128, 191>>
    /\ ret.recovered = ret.embedding


\* A step that is add_heuristic(h) for the catalogue heuristic id with the
\* timestamps la and ca passed in.
AddedWith(id, la, ca) ==
    /\ heuristics' \in add_heuristic(heuristics, max_heuristics,
            [FromStorage(id) EXCEPT !.last_accessed_ms = la,
                                    !.cached_at_ms = ca], now)
    /\ now' = now
    /\ calls' = calls

\* C38: add_heuristic called with cached_at_ms = 0 stores the entry with
\* cached_at_ms and last_accessed_ms both equal to the current time,
\* whatever last_accessed_ms was passed in.
C38_UnsetCachedAtStampsBoth ==
    [][\A id \in Ids, la \in {0, 1} :
          AddedWith(id, la, 0) =>
              /\ heuristics'[id].cached_at_ms = now
              /\ heuristics'[id].last_accessed_ms = now]_vars

\* The part of C38 that the code does: cached_at_ms = 0 becomes the current
\* time, and so does last_accessed_ms = 0.
C38_UnsetTimestampsStamped ==
    [][\A id \in Ids, la \in {0, 1} :
          AddedWith(id, la, 0) =>
              /\ heuristics'[id].cached_at_ms = now
              /\ la = 0 => heuristics'[id].last_accessed_ms = now]_vars

\* C39: an expired heuristic stays resident until it is removed, flushed,
\* replaced or evicted (the passing of time alone removes nothing), and the
\* next eviction add_heuristic performs on a full cache takes an expired
\* entry when one is resident.
C39_EvictionTakesExpired ==
    [][/\ (now' # now) => heuristics' = heuristics
       /\ \A id \in Ids :
            (/\ id \notin DOMAIN heuristics
             /\ id \in DOMAIN heuristics'
             /\ max_heuristics >= 1
             /\ Cardinality(DOMAIN heuristics) = max_heuristics
             /\ \E e \in DOMAIN heuristics :
                    Expired(heuristics[e], heuristic_ttl_ms, now))
            => \E e \in DOMAIN heuristics \ DOMAIN heuristics' :
                    Expired(heuristics[e], heuristic_ttl_ms, now)]_vars

\* The part of C39 about residence: the passing of time removes nothing,
\* and an expired entry counts towards the size like any other.
C39_ExpiredStaysResident ==
    [][(now' # now) => heuristics' = heuristics]_vars

\* C40: touch_heuristic on a resident id sets that entry's last_accessed_ms
\* and last_hit_ms to now and adds one to its hit_count, and changes no
\* other field, no other entry, not the set of resident ids and neither
\* counter; on an absent id it changes nothing.  get_heuristic changes
\* nothing.
C40_TouchChangesThreeFields ==
    [][/\ (calls' # calls) =>
            /\ DOMAIN heuristics' = DOMAIN heuristics
            /\ total_hits' = total_hits /\ total_misses' = total_misses
            /\ \E id \in Ids :
                 /\ \A o \in DOMAIN heuristics \ {id} : heuristics'[o] = heuristics[o]
                 /\ id \in DOMAIN heuristics =>
                      /\ heuristics'[id].last_accessed_ms = now
                      /\ heuristics'[id].last_hit_ms = now
                      /\ heuristics'[id].hit_count = heuristics[id].hit_count + 1
                      /\ \A f \in DOMAIN heuristics[id] \
                                {"last_accessed_ms", "last_hit_ms", "hit_count"} :
                            heuristics'[id][f] = heuristics[id][f]
       /\ (ret'.op = "get_heuristic") =>
            /\ heuristics' = heuristics
            /\ total_hits' = total_hits /\ total_misses' = total_misses]_vars

\* C40 witness: an entry cached at time 1 was touched later and read back:
\* its cached_at_ms is still 1, and it has one hit at the time of the touch.
C40_Witness ==
    /\ ret.op = "get_heuristic"
    /\ \E h \in ret.found :
         /\ h.cached_at_ms = 1
         /\ h.hit_count = 1
         /\ h.last_hit_ms > 1
         /\ h.last_accessed_ms = h.last_hit_ms
    /\ Cardinality(DOMAIN heuristics) = 2


\* C31: during one call of score the storage client opens at most one
\* connection, on the cache-hit path, on a cache miss with fallback and on
\* an embedding failure with fallback.
C31_OneConnectionPerScore ==
    \A t \in Tasks : ConnectionsOpened(t) <= 1

\* The part of C31 about the cache-hit path: a score call that takes its
\* matches from the cache has opened one connection.
C31_OneConnectionOnCacheHit ==
    \A t \in Tasks :
        (pc[t] = "scored" /\ path[t] = "cache") => ConnectionsOpened(t) = 1


\* C34: in score's cache path the lookup and the materialisation of its
\* hits are one read-lock critical section: every id found yields a
\* ScoredMatch, and a non-empty lookup never produces an empty result list.
C34_EveryHitMaterialised ==
    \A t \in Tasks :
        (pc[t] = "scored" /\ path[t] = "cache") =>
            /\ Len(score_result[t].matches) = Len(cache_matches[t])
            /\ score_result[t].matches # <<>>

\* C35: when notify_heuristic_change(id) returns, no request holds an answer
\* of the storage service with id in it that it has yet to put into the
\* cache: an answer from before the notification is not inserted after it.
C35_NoStaleInsertAfterNotify ==
    [][\A id \in StorageIds :
          NotifyHeuristicChange(id, "updated") =>
              \A t \in Tasks :
                  ~(/\ pc'[t] = "want_write"
                    /\ \E i \in DOMAIN storage_result'[t].heuristics :
                           storage_result'[t].heuristics[i] = id)]_vars

\* The evaluations that have completed with a match.
CompletedWithMatch ==
    {t \in Tasks : pc[t] = "done" /\ response[t].kind = "response"
                                  /\ response[t].from_cache}

\* C36: under every interleaving of evaluate_salience calls and
\* administrative RPCs, total_hits + total_misses is the number of
\* completed evaluations that returned a match; an evaluation that ends
\* without a match, with a scoring error or with empty text changes neither
\* counter.
C36_CountersCountMatches ==
    total_hits + total_misses = Cardinality(CompletedWithMatch)

\* C36 witness: both evaluations completed with a match, one booked as a
\* miss and one as a hit, and a flush has emptied the cache in between or
\* afterwards.
C36_Witness ==
    /\ \A t \in Tasks : t \in CompletedWithMatch
    /\ total_hits = 1
    /\ total_misses = 1
    /\ ret.op = "flush_cache"


\* No request is under way: each task either was never called or has
\* returned its response.
AtRest == \A t \in Tasks : pc[t] \in {"idle", "done"}

\* C37: under fair scheduling, with every storage call returning or
\* failing, every evaluate_salience that was started returns its response
\* (each task serves one request, so from some point on no request is under
\* way), and from then on the cache lock stays free, so that every
\* administrative RPC is served: no interleaving of readers and writers
\* ends in a deadlock.
C37_EveryRequestReturns == <>[](AtRest /\ WriteFree)

\* C37 witness: one request waits for the write lock of its bookkeeping
\* while the other one holds the lock.
C37_Witness ==
    \E t, u \in Tasks :
        /\ t # u
        /\ pc[t] = "want_book"
        /\ writer = u

====
